---- MODULE Spec2Model ----
(***************************************************************************)
(* A model of holland's backup spool (holland/core/spool.py): the Spool,   *)
(* Backupset and Backup facades over a directory tree, the lazy retention  *)
(* purge and the oldest/newest symlink maintenance.                        *)
(*                                                                         *)
(* A string the code computes with is a sequence of one-character strings, *)
(* so that str.split, "/".join, strftime, strptime and the lexicographic   *)
(* sort are computed character by character.  The state names a directory  *)
(* entry by a short label (Chars gives the entry's real name), and a path  *)
(* is the sequence of the labels of its components below the spool root.   *)
(***************************************************************************)
EXTENDS Integers, Sequences, FiniteSets, TLC

VARIABLES
    fs,      \* the tree below the spool root: the sets of directories, files, symlinks
    clock,   \* time.time(), in seconds since local midnight of 2020-01-01
    pc,      \* per process: where its current call stands ("idle" between calls)
    frame,   \* per process: the locals of the call in progress
    gen,     \* per process: the generator object returned by Backupset.purge
    handle,  \* per process: path of the Backup last returned by add_backup
    ret      \* per process: what the last completed call returned or raised

vars == <<fs, clock, pc, frame, gen, handle, ret>>

----------------------------------------------------------------------------
(* Bounds of the model *)

\* the clock ticks at most this many times
MaxTicks == 1
\* retention counts handed to purge range over -1 .. MaxRetain
MaxRetain == 2

----------------------------------------------------------------------------
(* Characters and strings *)

\* the characters that occur, in code point order
Alphabet ==
    << "+", "/", "0", "1", "2", "3", "4", "5", "6", "7", "8", "9", "_",
       "a", "b", "c", "d", "e", "f", "g", "h", "i", "j", "k", "l", "m",
       "n", "o", "p", "q", "r", "s", "t", "u", "v", "w", "x", "y", "z" >>

\* the rank of each character, tabulated
OrdOf == [c \in { Alphabet[i] : i \in 1..Len(Alphabet) } |->
            CHOOSE i \in 1..Len(Alphabet) : Alphabet[i] = c]

Ord(c) == OrdOf[c]

Min(a, b) == IF a < b THEN a ELSE b

\* the mutant compares the first differing characters the wrong way round
StrLessMutant(a, b) ==
    \E i \in 1..(Min(Len(a), Len(b)) + 1) :
        /\ \A j \in 1..(i - 1) : a[j] = b[j]
        /\ \/ i > Len(a) /\ i <= Len(b)
           \/ i <= Len(a) /\ i <= Len(b) /\ Ord(a[i]) > Ord(b[i])

\* Python's str.__lt__: lexicographic by code point, a proper prefix first
StrLess(a, b) ==
    \E i \in 1..(Min(Len(a), Len(b)) + 1) :
        /\ \A j \in 1..(i - 1) : a[j] = b[j]
        /\ \/ i > Len(a) /\ i <= Len(b)
           \/ i <= Len(a) /\ i <= Len(b) /\ Ord(a[i]) < Ord(b[i])

\* str.split(sep) for a one-character separator
RECURSIVE SplitFrom(_, _, _, _)
SplitFrom(s, sep, i, cur) ==
    IF i > Len(s) THEN << cur >>
    ELSE IF s[i] = sep THEN << cur >> \o SplitFrom(s, sep, i + 1, << >>)
    ELSE SplitFrom(s, sep, i + 1, Append(cur, s[i]))

Split(s, sep) == SplitFrom(s, sep, 1, << >>)

\* str.strip() over the characters that occur (none of them is whitespace)
Strip(s) == s

\* "/".join((a, b))
SlashJoin(a, b) == a \o << "/" >> \o b

Digit(n) == Alphabet[3 + n]
IsDigit(c) == Ord(c) >= 3 /\ Ord(c) <= 12
DigitVal(c) == Ord(c) - 3

\* "%02d"
Pad2(n) == << Digit((n \div 10) % 10), Digit(n % 10) >>
Pad4(n) == << Digit((n \div 1000) % 10), Digit((n \div 100) % 10),
              Digit((n \div 10) % 10), Digit(n % 10) >>

----------------------------------------------------------------------------
(* timestamp_dir and the strptime check *)

\* time.strftime("%Y%m%d_%H%M%S", time.localtime(when)), for an instant of
\* January 2020 (when counts the seconds since 2020-01-01 00:00:00 local)
timestamp_dir(when) ==
    Pad4(2020) \o Pad2(1) \o Pad2(1 + (when \div 86400)) \o << "_" >>
    \o Pad2((when \div 3600) % 24) \o Pad2((when \div 60) % 60) \o Pad2(when % 60)

\* the number a run of digits s[i .. i+w-1] denotes, -1 if it is no such run
NumAt(s, i, w) ==
    IF i + w - 1 > Len(s) \/ \E j \in i..(i + w - 1) : ~IsDigit(s[j]) THEN -1
    ELSE IF w = 1 THEN DigitVal(s[i])
    ELSE IF w = 2 THEN 10 * DigitVal(s[i]) + DigitVal(s[i + 1])
    ELSE 1000 * DigitVal(s[i]) + 100 * DigitVal(s[i + 1])
         + 10 * DigitVal(s[i + 2]) + DigitVal(s[i + 3])

IsLeap(y) == (y % 4 = 0 /\ y % 100 # 0) \/ y % 400 = 0

DaysIn(y, m) ==
    IF m = 2 THEN (IF IsLeap(y) THEN 29 ELSE 28)
    ELSE IF m \in {4, 6, 9, 11} THEN 30 ELSE 31

\* time.strptime(s, "%Y%m%d_%H%M%S") does not raise ValueError: the whole
\* string matches \d{4}, then a month, a day, "_", an hour, a minute and a
\* second of one or two digits each, and the date exists
Strptime(s) ==
    \E wm, wd, wH, wM, wS \in {1, 2} :
        LET im == 5
            id == im + wm
            iu == id + wd
            iH == iu + 1
            iM == iH + wH
            iS == iM + wM
            y  == NumAt(s, 1, 4)
            m  == NumAt(s, im, wm)
            d  == NumAt(s, id, wd)
            H  == NumAt(s, iH, wH)
            M  == NumAt(s, iM, wM)
            S  == NumAt(s, iS, wS)
        IN  /\ Len(s) = iS + wS - 1
            /\ s[iu] = "_"
            /\ y >= 1
            /\ m >= 1 /\ m <= 12
            /\ d >= 1 /\ d <= DaysIn(y, m)
            /\ H >= 0 /\ H <= 23
            /\ M >= 0 /\ M <= 59
            /\ S >= 0 /\ S <= 61

----------------------------------------------------------------------------
(* Directory entry names *)

\* labels of the entries named after the instants 4, 5, 6, ...
TsIds == << "t04", "t05", "t06", "t07", "t08", "t09", "t10", "t11", "t12", "t13" >>
\* the clock reads 10 when the model starts; older entries date from before
Instants == 4 .. (10 + MaxTicks)
TsId(when) == TsIds[when - 3]

SetIds == { "mysql", "pgsql" }
OtherIds == { "", "oldest", "newest", "lost+found", "backup.conf" }
Ids == SetIds \cup OtherIds \cup { TsId(w) : w \in Instants }

\* the entry name a label stands for
NameOf(id) ==
    CASE id = "" -> << >>
      [] id = "mysql" -> << "m", "y", "s", "q", "l" >>
      [] id = "pgsql" -> << "p", "g", "s", "q", "l" >>
      [] id = "oldest" -> << "o", "l", "d", "e", "s", "t" >>
      [] id = "newest" -> << "n", "e", "w", "e", "s", "t" >>
      [] id = "lost+found" -> << "l", "o", "s", "t", "+", "f", "o", "u", "n", "d" >>
      [] id = "backup.conf" -> << "b", "a", "c", "k", "u", "p", "c", "o", "n", "f" >>
      [] OTHER -> timestamp_dir(CHOOSE w \in Instants : TsId(w) = id)

\* the same, tabulated
CharsOf == [id \in Ids |-> NameOf(id)]

Chars(id) == CharsOf[id]

\* the label of an entry name; "?" for a name no entry of the model has
IdOf(chars) ==
    IF \E id \in Ids : Chars(id) = chars
    THEN CHOOSE id \in Ids : Chars(id) = chars
    ELSE "?"

----------------------------------------------------------------------------
(* The file system *)

NoPath == << "?" >>

LinkAt(p) == { l \in fs.links : l[1] = p }
TargetOf(p) == (CHOOSE l \in fs.links : l[1] = p)[2]

\* lstat: what the entry at a path without "" components is, links not followed
LKind(p) ==
    IF p \in fs.dirs THEN "dir"
    ELSE IF p \in fs.files THEN "file"
    ELSE IF LinkAt(p) # {} THEN "link"
    ELSE "none"

\* path resolution from directory cur along the components of rest, following
\* symlinks (their targets are absolute); NoPath when a component is missing
RECURSIVE Walk(_, _)
Walk(cur, rest) ==
    IF cur \notin fs.dirs THEN (IF rest = << >> /\ cur \in fs.files THEN cur ELSE NoPath)
    ELSE IF rest = << >> THEN cur
    ELSE IF Head(rest) = "" THEN Walk(cur, Tail(rest))
    ELSE LET nxt == Append(cur, Head(rest))
         IN  IF LKind(nxt) = "link" THEN Walk(<< >>, TargetOf(nxt) \o Tail(rest))
             ELSE IF LKind(nxt) = "none" THEN NoPath
             ELSE Walk(nxt, Tail(rest))

RealPath(p) == Walk(<< >>, p)

\* os.path.join(path, name)
PathJoin(path, name) == Append(path, name)

\* the path without its "" components (a doubled or trailing slash)
Norm(p) == SelectSeq(p, LAMBDA c : c # "")

\* os.path.exists, os.path.isdir (both follow symlinks) and os.path.islink
Exists(p) == RealPath(p) # NoPath
IsDir(p) == RealPath(p) \in fs.dirs
IsLink(p) == LKind(Norm(p)) = "link"

AllPaths == fs.dirs \cup fs.files \cup { l[1] : l \in fs.links }

\* os.listdir of a directory, as the set of its entries' labels
ListDir(p) ==
    LET d == RealPath(p)
    IN  { q[Len(q)] : q \in { x \in AllPaths : Len(x) = Len(d) + 1 /\ SubSeq(x, 1, Len(d)) = d } }

IsPrefix(d, x) == Len(x) >= Len(d) /\ SubSeq(x, 1, Len(d)) = d

----------------------------------------------------------------------------
(* Values: what a call returns *)

None == [tag |-> "None", items |-> << >>]
ListOf(items) == [tag |-> "list", items |-> items]
Obj(o) == [tag |-> "object", items |-> << o >>]
Raised(exc) == [tag |-> exc, items |-> << >>]

\* Python's truth value of a returned value
Truthy(v) == v.tag = "object" \/ (v.tag = "list" /\ v.items # << >>)

\* Backupset.__init__ and Backup.__init__ (the config is not modelled: the
\* constructor only reads backup.conf)
Backupset(name, path) == [name |-> name, path |-> path]
Backup(path, backupset, name) == [path |-> path, backupset |-> backupset, name |-> name]

\* Backup.name, the sort key of a listing
BackupName(b) == SlashJoin(Chars(b.backupset), Chars(b.name))

\* list.sort(key=...) of a set of [key, obj] pairs with distinct keys
RECURSIVE SortKeyed(_)
SortKeyed(S) ==
    IF S = {} THEN << >>
    ELSE LET m == CHOOSE x \in S : \A y \in S \ {x} : StrLess(x.key, y.key)
         IN  << m.obj >> \o SortKeyed(S \ {m})

Reverse(s) == [i \in 1..Len(s) |-> s[Len(s) + 1 - i]]

\* the mutant drops the last start entries instead of the first
ISliceMutant(s, start) == SubSeq(s, 1, Len(s) - start)

\* itertools.islice(seq, start, None)
ISlice(s, start) == SubSeq(s, start + 1, Len(s))

----------------------------------------------------------------------------
(* Backupset: lookups *)

\* the mutant leaves out the islink test
IsBackupDirMutant(path) == IsDir(path)

\* the directory test of the listing loop
IsBackupDir(path) == IsDir(path) /\ ~IsLink(path)

\* the mutant ignores reverse
ListOrderMutant(items, reverse) == items

\* the order of a listing
ListOrder(items, reverse) == IF reverse THEN Reverse(items) ELSE items

\* the try block of the listing loop, time.strptime(backup, "%Y%m%d_%H%M%S"),
\* tabulated over the entry names: TRUE where no ValueError is raised
ParsesAsTimestamp == [id \in Ids |-> Strptime(Chars(id))]

\* Backupset.list_backups(name, reverse); name is a string, << >> for None
Backupset_list_backups(self, name, reverse) ==
    IF ~Exists(self.path) THEN None
    ELSE IF Strip(name) # << >> THEN
        LET path == PathJoin(self.path, IdOf(Strip(name)))
        IN  IF Exists(path)
            THEN ListOf(<< Backup(path, self.name, IdOf(Strip(name))) >>)
            ELSE ListOf(<< >>)
    ELSE
        LET dirs == { backup \in ListDir(self.path) :
                        /\ IsBackupDir(PathJoin(self.path, backup))
                        /\ ParsesAsTimestamp[backup] }
            backup_list == { Backup(PathJoin(self.path, d), self.name, d) : d \in dirs }
        IN  ListOf(ListOrder(SortKeyed({ [key |-> BackupName(x), obj |-> x] : x \in backup_list }),
                                reverse))

\* Backupset.find_backup(name)
Backupset_find_backup(self, name) ==
    LET backups == Backupset_list_backups(self, name, FALSE)
    IN  IF ~Truthy(backups) THEN None ELSE Obj(backups.items[1])

----------------------------------------------------------------------------
(* Spool: lookups *)

\* Spool.path, relative to itself
SpoolPath == << >>

\* Spool.find_backupset(backupset_name); the name is a string
Spool_find_backupset(backupset_name) ==
    LET path == PathJoin(SpoolPath, IdOf(backupset_name))
    IN  IF ~Exists(path) THEN None
        ELSE Obj(Backupset(IdOf(backupset_name), path))

\* Spool.find_backup(name): split on "/", ValueError from the unpacking caught
Spool_find_backup(name) ==
    LET parts == Split(name, "/")
    IN  IF Len(parts) # 2 THEN None
        ELSE LET backupset == Spool_find_backupset(parts[1])
             IN  IF Truthy(backupset)
                 THEN Backupset_find_backup(backupset.items[1], parts[2])
                 ELSE None

\* Spool.list_backupsets(name, reverse); name is a string, << >> for None
Spool_list_backupsets(name, reverse) ==
    IF ~Exists(SpoolPath) THEN << >>
    ELSE IF name # << >> /\ ~Exists(PathJoin(SpoolPath, IdOf(name))) THEN << >>
    ELSE LET dirs == IF name # << >> THEN { IdOf(name) }
                     ELSE { backupset \in ListDir(SpoolPath) :
                              IsDir(PathJoin(SpoolPath, backupset)) }
             backupsets == { Backupset(d, PathJoin(SpoolPath, d)) : d \in dirs }
             sorted == SortKeyed({ [key |-> Chars(x.name), obj |-> x] : x \in backupsets })
         IN  IF reverse THEN Reverse(sorted) ELSE sorted

----------------------------------------------------------------------------
(* File system calls that change the tree: the errno each raises ("" for   *)
(* none) and the tree it leaves                                            *)

Prefixes(p) == { SubSeq(p, 1, i) : i \in 0..Len(p) }

\* the mutant tolerates an existing leaf directory
MakedirsErrMutant(path) ==
    LET q == Norm(path)
    IN  IF LKind(q) \notin {"none", "dir"} THEN "EEXIST"
        ELSE IF \E a \in Prefixes(q) \ {q} : LKind(a) \notin {"none", "dir"} THEN "ENOTDIR"
        ELSE ""

\* os.makedirs(path): missing parents are created, existing ones tolerated;
\* the leaf must not exist
MakedirsErr(path) ==
    LET q == Norm(path)
    IN  IF LKind(q) # "none" THEN "EEXIST"
        ELSE IF \E a \in Prefixes(q) \ {q} : LKind(a) \notin {"none", "dir"} THEN "ENOTDIR"
        ELSE ""

\* the mutant writes a backup.conf into the new directory
MakedirsMutant(path) ==
    [fs EXCEPT !.dirs = @ \cup Prefixes(Norm(path)),
               !.files = @ \cup { Append(Norm(path), "backup.conf") }]

Makedirs(path) == [fs EXCEPT !.dirs = @ \cup Prefixes(Norm(path))]

\* shutil.rmtree(path)
RmtreeErr(path) ==
    LET k == LKind(Norm(path))
    IN  IF k = "none" THEN "ENOENT"
        ELSE IF k = "link" THEN "ELINK"
        ELSE IF k = "file" THEN "ENOTDIR"
        ELSE ""

\* the mutant empties the directory and leaves it in place
RmtreeMutant(path) ==
    LET q == Norm(path)
    IN  [dirs  |-> { x \in fs.dirs : ~IsPrefix(q, x) \/ x = q },
         files |-> { x \in fs.files : ~IsPrefix(q, x) },
         links |-> { l \in fs.links : ~IsPrefix(q, l[1]) }]

Rmtree(path) ==
    LET q == Norm(path)
    IN  [dirs  |-> { x \in fs.dirs : ~IsPrefix(q, x) },
         files |-> { x \in fs.files : ~IsPrefix(q, x) },
         links |-> { l \in fs.links : ~IsPrefix(q, l[1]) }]

\* os.remove(path)
RemoveErr(path) ==
    LET k == LKind(Norm(path))
    IN  IF k = "none" THEN "ENOENT" ELSE IF k = "dir" THEN "EISDIR" ELSE ""

\* the mutant removes plain files only
RemoveMutant(path) == [fs EXCEPT !.files = @ \ { Norm(path) }]

Remove(path) ==
    [fs EXCEPT !.files = @ \ { Norm(path) },
               !.links = { l \in @ : l[1] # Norm(path) }]

\* os.symlink(target, link)
SymlinkErr(link) ==
    LET q == Norm(link)
    IN  IF LKind(q) # "none" THEN "EEXIST"
        ELSE IF SubSeq(q, 1, Len(q) - 1) \notin fs.dirs THEN "ENOENT"
        ELSE ""

Symlink(target, link) == [fs EXCEPT !.links = @ \cup { << Norm(link), target >> }]

\* what the call of a process returned
Returned(p, op, args, val) == [ret EXCEPT ![p] = [op |-> op, args |-> args, val |-> val]]

NoFrame == [self |-> "", backups |-> None]
NoGen == [state |-> "none", self |-> "", n |-> 0, listing |-> << >>,
          todo |-> << >>, yielded |-> << >>, alone |-> TRUE]

\* a purge sequence over backupset s that has listed its backups is no longer
\* alone once another call creates or removes a backup of s
Touch(g, s, except) ==
    [q \in DOMAIN g |->
        IF q \notin except /\ g[q].self = s /\ g[q].state \in {"running", "suspended", "done"}
        THEN [g[q] EXCEPT !.alone = FALSE]
        ELSE g[q]]

----------------------------------------------------------------------------
(* The clock *)

Tick ==
    /\ clock < 10 + MaxTicks
    /\ clock' = clock + 1
    /\ UNCHANGED << fs, pc, frame, gen, handle, ret >>

----------------------------------------------------------------------------
(* Lookups: each returns at once and leaves the tree alone *)

\* Backupset.list_backups(reverse=...) on the backupset named s
ListBackups(p, s, reverse) ==
    /\ pc[p] = "idle"
    /\ ret' = Returned(p, IF reverse THEN "list_backups_reverse" ELSE "list_backups", << s >>,
                       Backupset_list_backups(Backupset(s, PathJoin(SpoolPath, s)), << >>, reverse))
    /\ UNCHANGED << fs, clock, pc, frame, gen, handle >>

\* the compound names handed to Spool.find_backup: labels joined by "/"
RECURSIVE JoinAll(_)
JoinAll(parts) ==
    IF Len(parts) = 1 THEN Chars(parts[1])
    ELSE SlashJoin(Chars(parts[1]), JoinAll(Tail(parts)))

FindInputs ==
    LET names == { "mysql", "", "oldest", "lost+found", "t04", "t08", "t09" }
    IN  { << a >> : a \in { "mysql", "t09" } }
        \cup { << a, b >> : a \in { "mysql", "pgsql", "" }, b \in names }
        \cup { << "mysql", "t09", "" >>, << "", "mysql", "t09" >> }

\* Spool.find_backup(name)
SpoolFindBackup(p, parts) ==
    /\ pc[p] = "idle"
    /\ ret' = Returned(p, "find_backup", parts, Spool_find_backup(JoinAll(parts)))
    /\ UNCHANGED << fs, clock, pc, frame, gen, handle >>

\* the mutant creates the backupset directory it does not find
FindBackupsetMutant(p, s) ==
    /\ pc[p] = "idle"
    /\ ret' = Returned(p, "find_backupset", << s >>, Spool_find_backupset(Chars(s)))
    /\ fs' = IF Exists(<< s >>) THEN fs ELSE [fs EXCEPT !.dirs = @ \cup { << >>, << s >> }]
    /\ UNCHANGED << clock, pc, frame, gen, handle >>

\* Spool.find_backupset(backupset_name)
FindBackupset(p, s) ==
    /\ pc[p] = "idle"
    /\ ret' = Returned(p, "find_backupset", << s >>, Spool_find_backupset(Chars(s)))
    /\ UNCHANGED << fs, clock, pc, frame, gen, handle >>

\* Backupset.find_backup(name) on the backupset named s
BackupsetFindBackup(p, s, name) ==
    /\ pc[p] = "idle"
    /\ ret' = Returned(p, "Backupset.find_backup", << s, name >>,
                       Backupset_find_backup(Backupset(s, PathJoin(SpoolPath, s)), Chars(name)))
    /\ UNCHANGED << fs, clock, pc, frame, gen, handle >>

\* Spool.list_backupsets(name, reverse); the label "" stands for no name
SpoolListBackupsets(p, name, reverse) ==
    /\ pc[p] = "idle"
    /\ ret' = Returned(p, IF reverse THEN "list_backupsets_reverse" ELSE "list_backupsets",
                       << name >>, ListOf(Spool_list_backupsets(Chars(name), reverse)))
    /\ UNCHANGED << fs, clock, pc, frame, gen, handle >>

\* the loops of Spool.list_backups: the listings of the backupsets, chained;
\* iterating a listing that is None raises TypeError
RECURSIVE ChainBackups(_)
ChainBackups(backupsets) ==
    IF backupsets = << >> THEN ListOf(<< >>)
    ELSE LET first == Backupset_list_backups(Head(backupsets), << >>, FALSE)
             rest == ChainBackups(Tail(backupsets))
         IN  IF first.tag = "None" THEN Raised("TypeError")
             ELSE IF rest.tag # "list" THEN rest
             ELSE ListOf(first.items \o rest.items)

\* Spool.list_backups(backupset_name), consumed to its end
Spool_list_backups(backupset_name) ==
    ChainBackups(Spool_list_backupsets(backupset_name, FALSE))

SpoolListBackups(p, name) ==
    /\ pc[p] = "idle"
    /\ ret' = Returned(p, "Spool.list_backups", << name >>, Spool_list_backups(Chars(name)))
    /\ UNCHANGED << fs, clock, pc, frame, gen, handle >>

----------------------------------------------------------------------------
(* Creating backupsets and backups *)

\* the mutant hands out a handle whether or not the directory exists
Spool_add_backupsetMutant(backupset_name) ==
    Obj(Backupset(IdOf(backupset_name), PathJoin(SpoolPath, IdOf(backupset_name))))

\* Spool.add_backupset(backupset_name)
Spool_add_backupset(backupset_name) ==
    LET path == PathJoin(SpoolPath, IdOf(backupset_name))
    IN  IF Exists(path) THEN Raised("IOError")
        ELSE Obj(Backupset(IdOf(backupset_name), path))

AddBackupset(p, s) ==
    /\ pc[p] = "idle"
    /\ ret' = Returned(p, "add_backupset", << s >>, Spool_add_backupset(Chars(s)))
    /\ UNCHANGED << fs, clock, pc, frame, gen, handle >>

\* Backupset.add_backup() on the backupset named s, up to its return:
\* timestamp_dir(), Backup(...), backup.prepare()
Backupset_add_backup(p, s, op) ==
    LET backup_name == IdOf(timestamp_dir(clock))
        backup_path == PathJoin(PathJoin(SpoolPath, s), backup_name)
        backup == Backup(backup_path, s, backup_name)
    IN  IF MakedirsErr(backup_path) # ""
        THEN /\ ret' = Returned(p, op, << s >>, Raised("OSError"))
             /\ UNCHANGED << fs, gen, handle >>
        ELSE /\ fs' = Makedirs(backup_path)
             /\ gen' = Touch(gen, s, {})
             /\ handle' = [handle EXCEPT ![p] = backup_path]
             /\ ret' = Returned(p, op, << s >>, Obj(backup))

\* a caller holding a Backupset handle calls add_backup() on it
BackupsetAddBackup(p, s) ==
    /\ pc[p] = "idle"
    /\ Backupset_add_backup(p, s, "Backupset.add_backup")
    /\ UNCHANGED << clock, pc, frame >>

\* Spool.add_backup(backupset_name), first half: find_backupset, and
\* add_backupset when that found nothing; the frame keeps the name of the
\* backupset and what find_backupset returned
SpoolAddBackupFind(p, s) ==
    /\ pc[p] = "idle"
    /\ LET found == Spool_find_backupset(Chars(s))
           backupset == IF Truthy(found) THEN found ELSE Spool_add_backupset(Chars(s))
       IN  IF backupset.tag = "IOError"
           THEN /\ ret' = Returned(p, "add_backup", << s >>, backupset)
                /\ UNCHANGED << pc, frame >>
           ELSE /\ pc' = [pc EXCEPT ![p] = "add_backup"]
                /\ frame' = [frame EXCEPT ![p] = [self |-> backupset.items[1].name,
                                                  backups |-> found]]
                /\ UNCHANGED ret
    /\ UNCHANGED << fs, clock, gen, handle >>

\* Spool.add_backup, second half: return backupset.add_backup()
SpoolAddBackupPrepare(p) ==
    /\ pc[p] = "add_backup"
    /\ Backupset_add_backup(p, frame[p].self, "add_backup")
    /\ pc' = [pc EXCEPT ![p] = "idle"]
    /\ frame' = [frame EXCEPT ![p] = NoFrame]
    /\ UNCHANGED clock

\* Backup.flush() on the backup add_backup returned: config.write() creates
\* or overwrites backup.conf in the backup's directory
Flush(p) ==
    /\ pc[p] = "idle"
    /\ handle[p] # NoPath
    /\ IF LKind(Norm(handle[p])) = "dir"
       THEN /\ fs' = [fs EXCEPT !.files = @ \cup { PathJoin(handle[p], "backup.conf") }]
            /\ ret' = Returned(p, "flush", handle[p], None)
       ELSE /\ ret' = Returned(p, "flush", handle[p], Raised("IOError"))
            /\ UNCHANGED fs
    /\ UNCHANGED << clock, pc, frame, gen, handle >>

----------------------------------------------------------------------------
(* Backupset.purge: a generator.  Calling purge only creates it; its body  *)
(* runs as the consumer advances it.                                       *)

Generator == [tag |-> "generator", items |-> << >>]

\* purge(retention_count) is called: nothing of its body runs yet
PurgeCreate(p, s, n) ==
    /\ pc[p] = "idle"
    /\ gen' = [gen EXCEPT ![p] = [NoGen EXCEPT !.state = "created", !.self = s, !.n = n]]
    /\ ret' = Returned(p, "purge", << s >>, Generator)
    /\ UNCHANGED << fs, clock, pc, frame, handle >>

\* the mutant walks the whole listing
PurgeListMutant(listing, retention_count) == listing

\* the backups a purge walks: the newest-first listing less its first
\* retention_count entries
PurgeList(listing, retention_count) == ISlice(listing, retention_count)

\* the mutant takes a negative retention_count for 0 instead of raising
PurgeStartMutant(p) ==
    /\ pc[p] = "idle"
    /\ gen[p].state = "created"
    /\ LET g == gen[p]
           listed == Backupset_list_backups(Backupset(g.self, PathJoin(SpoolPath, g.self)), << >>, TRUE)
       IN  IF listed.tag = "None"
           THEN /\ gen' = [gen EXCEPT ![p].state = "error"]
                /\ ret' = Returned(p, "next", << g.self >>, Raised("TypeError"))
                /\ UNCHANGED pc
           ELSE /\ gen' = [gen EXCEPT ![p].state = "running",
                                      ![p].listing = listed.items,
                                      ![p].todo = PurgeList(listed.items, IF g.n < 0 THEN 0 ELSE g.n)]
                /\ pc' = [pc EXCEPT ![p] = "purge_loop"]
                /\ UNCHANGED ret
    /\ UNCHANGED << fs, clock, frame, handle >>

\* the first next(): the retention_count check, then the listing that islice walks
PurgeStart(p) ==
    /\ pc[p] = "idle"
    /\ gen[p].state = "created"
    /\ LET g == gen[p]
           listed == Backupset_list_backups(Backupset(g.self, PathJoin(SpoolPath, g.self)), << >>, TRUE)
       IN  IF g.n < 0
           THEN /\ gen' = [gen EXCEPT ![p].state = "error"]
                /\ ret' = Returned(p, "next", << g.self >>, Raised("ValueError"))
                /\ UNCHANGED pc
           ELSE IF listed.tag = "None"
           THEN /\ gen' = [gen EXCEPT ![p].state = "error"]
                /\ ret' = Returned(p, "next", << g.self >>, Raised("TypeError"))
                /\ UNCHANGED pc
           ELSE /\ gen' = [gen EXCEPT ![p].state = "running",
                                      ![p].listing = listed.items,
                                      ![p].todo = PurgeList(listed.items, g.n)]
                /\ pc' = [pc EXCEPT ![p] = "purge_loop"]
                /\ UNCHANGED ret
    /\ UNCHANGED << fs, clock, frame, handle >>

\* the mutant lets ENOENT through
Backup_purge_raisesMutant(backup) == RmtreeErr(backup.path) # ""

\* Backup.purge(): rmtree, a missing directory tolerated
Backup_purge_raises(backup) == RmtreeErr(backup.path) \notin { "", "ENOENT" }

\* the mutant removes the directory that holds the backup
Backup_purgeMutant(backup) == Rmtree(SubSeq(backup.path, 1, Len(backup.path) - 1))

Backup_purge(backup) == IF RmtreeErr(backup.path) = "" THEN Rmtree(backup.path) ELSE fs

\* one turn of the for loop: the next backup is purged and then yielded, or
\* the sequence ends
PurgeBody(p) ==
    LET g == gen[p]
    IN  IF g.todo = << >>
        THEN /\ gen' = [gen EXCEPT ![p].state = "done"]
             /\ ret' = Returned(p, "next", << g.self >>, Raised("StopIteration"))
             /\ UNCHANGED fs
        ELSE LET backup == Head(g.todo)
             IN  IF Backup_purge_raises(backup)
                 THEN /\ gen' = [gen EXCEPT ![p].state = "error"]
                      /\ ret' = Returned(p, "next", << g.self >>, Raised("OSError"))
                      /\ UNCHANGED fs
                 ELSE /\ fs' = Backup_purge(backup)
                      /\ gen' = [Touch(gen, g.self, {p}) EXCEPT
                                    ![p].state = "suspended",
                                    ![p].todo = Tail(g.todo),
                                    ![p].yielded = Append(g.yielded, backup)]
                      /\ ret' = Returned(p, "next", << g.self >>, Obj(backup))

\* the first next() goes on into the loop
PurgeLoop(p) ==
    /\ pc[p] = "purge_loop"
    /\ PurgeBody(p)
    /\ pc' = [pc EXCEPT ![p] = "idle"]
    /\ UNCHANGED << clock, frame, handle >>

\* a later next() resumes the loop after the yield
PurgeResume(p) ==
    /\ pc[p] = "idle"
    /\ gen[p].state = "suspended"
    /\ PurgeBody(p)
    /\ UNCHANGED << clock, pc, frame, handle >>

----------------------------------------------------------------------------
(* Backupset.update_symlinks, one file system call at a time *)

LinkPath(s, which) == PathJoin(PathJoin(SpoolPath, s), which)

\* the enable check and the listing
UpdateSymlinksList(p, s, enable) ==
    /\ pc[p] = "idle"
    /\ IF ~enable
       THEN /\ ret' = Returned(p, "update_symlinks", << s, "enable=False" >>, None)
            /\ UNCHANGED << pc, frame >>
       ELSE /\ frame' = [frame EXCEPT ![p] =
                           [self |-> s,
                            backups |-> Backupset_list_backups(
                                            Backupset(s, PathJoin(SpoolPath, s)), << >>, FALSE)]]
            /\ pc' = [pc EXCEPT ![p] = "rm_oldest"]
            /\ UNCHANGED ret
    /\ UNCHANGED << fs, clock, gen, handle >>

\* the mutant removes nothing
RemoveLinkMutant(link) == fs

\* os.remove(link) with ENOENT swallowed: the tree it leaves
RemoveLink(link) == IF RemoveErr(link) = "" THEN Remove(link) ELSE fs

\* os.remove(oldest_link)
UpdateSymlinksRmOldest(p) ==
    /\ pc[p] = "rm_oldest"
    /\ LET link == LinkPath(frame[p].self, "oldest")
       IN  IF RemoveErr(link) \notin { "", "ENOENT" }
           THEN /\ ret' = Returned(p, "update_symlinks", << frame[p].self >>, Raised("OSError"))
                /\ pc' = [pc EXCEPT ![p] = "idle"]
                /\ frame' = [frame EXCEPT ![p] = NoFrame]
                /\ UNCHANGED fs
           ELSE /\ fs' = RemoveLink(link)
                /\ pc' = [pc EXCEPT ![p] = "rm_newest"]
                /\ UNCHANGED << frame, ret >>
    /\ UNCHANGED << clock, gen, handle >>

\* os.remove(newest_link), then the return when there are no backups
UpdateSymlinksRmNewest(p) ==
    /\ pc[p] = "rm_newest"
    /\ LET link == LinkPath(frame[p].self, "newest")
       IN  IF RemoveErr(link) \notin { "", "ENOENT" }
           THEN /\ ret' = Returned(p, "update_symlinks", << frame[p].self >>, Raised("OSError"))
                /\ pc' = [pc EXCEPT ![p] = "idle"]
                /\ frame' = [frame EXCEPT ![p] = NoFrame]
                /\ UNCHANGED fs
           ELSE /\ fs' = RemoveLink(link)
                /\ IF ~Truthy(frame[p].backups)
                   THEN /\ ret' = Returned(p, "update_symlinks", << frame[p].self >>, None)
                        /\ pc' = [pc EXCEPT ![p] = "idle"]
                        /\ frame' = [frame EXCEPT ![p] = NoFrame]
                   ELSE /\ pc' = [pc EXCEPT ![p] = "ln_oldest"]
                        /\ UNCHANGED << frame, ret >>
    /\ UNCHANGED << clock, gen, handle >>

\* the backups the two links are pointed at
OldestOf(backups) == backups[1]
\* the mutant takes the first entry for the newest too
NewestOfMutant(backups) == backups[1]

NewestOf(backups) == backups[Len(backups)]

\* os.symlink(oldest_path, oldest_link)
UpdateSymlinksLnOldest(p) ==
    /\ pc[p] = "ln_oldest"
    /\ LET link == LinkPath(frame[p].self, "oldest")
       IN  IF SymlinkErr(link) # ""
           THEN /\ ret' = Returned(p, "update_symlinks", << frame[p].self >>, Raised("OSError"))
                /\ pc' = [pc EXCEPT ![p] = "idle"]
                /\ frame' = [frame EXCEPT ![p] = NoFrame]
                /\ UNCHANGED fs
           ELSE /\ fs' = Symlink(OldestOf(frame[p].backups.items).path, link)
                /\ pc' = [pc EXCEPT ![p] = "ln_newest"]
                /\ UNCHANGED << frame, ret >>
    /\ UNCHANGED << clock, gen, handle >>

\* os.symlink(newest_path, newest_link) and the return
UpdateSymlinksLnNewest(p) ==
    /\ pc[p] = "ln_newest"
    /\ LET link == LinkPath(frame[p].self, "newest")
       IN  IF SymlinkErr(link) # ""
           THEN /\ ret' = Returned(p, "update_symlinks", << frame[p].self >>, Raised("OSError"))
                /\ UNCHANGED fs
           ELSE /\ fs' = Symlink(NewestOf(frame[p].backups.items).path, link)
                /\ ret' = Returned(p, "update_symlinks", << frame[p].self >>, None)
    /\ pc' = [pc EXCEPT ![p] = "idle"]
    /\ frame' = [frame EXCEPT ![p] = NoFrame]
    /\ UNCHANGED << clock, gen, handle >>

----------------------------------------------------------------------------
(* Initial states and the specification *)

EmptyTree == [dirs |-> {}, files |-> {}, links |-> {}]
BareRoot == [dirs |-> { SpoolPath }, files |-> {}, links |-> {}]

\* backupset s as earlier runs may have left it: the flushed backups old;
\* with decoys, a foreign directory, a plain file and a symlink to a directory
\* that both carry timestamp names; with links, oldest and newest left
\* pointing at the backup of instant 8
OldTree(s, old, decoys, links) ==
    LET d == << s >>
    IN  [dirs  |-> { SpoolPath, d } \cup { Append(d, b) : b \in old }
                   \cup (IF decoys THEN { Append(d, "lost+found") } ELSE {}),
         files |-> { << s, b, "backup.conf" >> : b \in old }
                   \cup (IF decoys THEN { Append(d, TsId(5)) } ELSE {}),
         links |-> (IF decoys THEN { << Append(d, TsId(4)), Append(d, "lost+found") >> } ELSE {})
                   \cup (IF links
                         THEN { << Append(d, "oldest"), Append(d, TsId(8)) >>,
                                << Append(d, "newest"), Append(d, TsId(8)) >> }
                         ELSE {})]

OldBackups == { TsId(7), TsId(8), TsId(9) }

InitTrees ==
    { EmptyTree, BareRoot }
    \cup { OldTree("mysql", old, decoys, links) :
             old \in SUBSET OldBackups, decoys \in BOOLEAN, links \in BOOLEAN }

\* the one process of a sequential caller
Procs == { "p1" }

\* the processes of concurrent callers, and the generator objects and
\* handles that one caller may hold at a time
AllProcs == { "p1", "p2" }

NoRet == [op |-> "", args |-> << >>, val |-> None]

Init ==
    /\ fs \in InitTrees
    /\ clock = 10
    /\ pc = [p \in AllProcs |-> "idle"]
    /\ frame = [p \in AllProcs |-> NoFrame]
    /\ gen = [p \in AllProcs |-> NoGen]
    /\ handle = [p \in AllProcs |-> NoPath]
    /\ ret = [p \in AllProcs |-> NoRet]

\* the backupsets the callers work on
ActiveSets == { "mysql" }

\* the names handed to Backupset.find_backup
FindNames == { "", "oldest", "lost+found", "t04", "t05", "t08", "t10" }

Lookups(p) ==
    \/ \E s \in SetIds, reverse \in BOOLEAN : ListBackups(p, s, reverse)
    \/ \E parts \in FindInputs : SpoolFindBackup(p, parts)
    \/ \E s \in SetIds : FindBackupset(p, s)
    \/ \E s \in ActiveSets, name \in FindNames : BackupsetFindBackup(p, s, name)
    \/ \E name \in SetIds \cup { "" }, reverse \in BOOLEAN : SpoolListBackupsets(p, name, reverse)
    \/ \E name \in SetIds \cup { "" } : SpoolListBackups(p, name)

Creates(p) ==
    \/ \E s \in ActiveSets : AddBackupset(p, s)
    \/ \E s \in ActiveSets : BackupsetAddBackup(p, s)
    \/ \E s \in ActiveSets : SpoolAddBackupFind(p, s)
    \/ SpoolAddBackupPrepare(p)
    \/ Flush(p)

Purges(p) ==
    \/ \E s \in ActiveSets, n \in (-1)..MaxRetain : PurgeCreate(p, s, n)
    \/ PurgeStart(p)
    \/ PurgeLoop(p)
    \/ PurgeResume(p)

Links(p) ==
    \/ \E s \in ActiveSets, enable \in BOOLEAN : UpdateSymlinksList(p, s, enable)
    \/ UpdateSymlinksRmOldest(p)
    \/ UpdateSymlinksRmNewest(p)
    \/ UpdateSymlinksLnOldest(p)
    \/ UpdateSymlinksLnNewest(p)

\* retention purges, with backups being added in between
NextPurge ==
    \/ Tick
    \/ \E p \in Procs : Purges(p)
    \/ \E p \in Procs, s \in ActiveSets : BackupsetAddBackup(p, s)
SpecPurge == Init /\ [][NextPurge]_vars

\* symlink maintenance around purges and listings
NextLinks ==
    \/ \E p \in Procs : Links(p)
    \/ \E p \in Procs : Purges(p)
    \/ \E p \in Procs, s \in ActiveSets : ListBackups(p, s, FALSE)
    \/ \E p \in Procs, s \in ActiveSets : BackupsetAddBackup(p, s)
SpecLinks == Init /\ [][NextLinks]_vars

\* listings, in both orders, as backups are added
NextListing ==
    \/ Tick
    \/ \E p \in Procs, s \in ActiveSets : BackupsetAddBackup(p, s)
    \/ \E p \in Procs, s \in SetIds, reverse \in BOOLEAN : ListBackups(p, s, reverse)
SpecListing == Init /\ [][NextListing]_vars

\* lookups over the trees earlier runs may have left
NextLookup == \E p \in Procs : Lookups(p)
SpecLookup == Init /\ [][NextLookup]_vars

\* lookups between the calls that create backups
NextFrame ==
    \/ \E p \in Procs : Lookups(p)
    \/ \E p \in Procs, s \in ActiveSets : BackupsetAddBackup(p, s)
    \/ \E p \in Procs : Flush(p)
SpecFrame == Init /\ [][NextFrame]_vars

\* two purge sequences over one backupset, their steps interleaved
NextTwoPurges == \E p \in AllProcs : Purges(p)
SpecTwoPurges == Init /\ [][NextTwoPurges]_vars

\* two processes creating backupsets and backups in one spool
NextRace ==
    \/ Tick
    \/ \E p \in AllProcs, s \in ActiveSets : SpoolAddBackupFind(p, s)
    \/ \E p \in AllProcs : SpoolAddBackupPrepare(p)
SpecRace == Init /\ [][NextRace]_vars

\* update_symlinks by one process while another purges the backupset
NextLinkRace ==
    \/ \E p \in Procs : Links(p)
    \/ \E p \in AllProcs \ Procs : Purges(p)
SpecLinkRace == Init /\ [][NextLinkRace]_vars

\* a pair of purge sequences over one backupset, each process starting one
NextPurgePair ==
    \/ \E p \in AllProcs, s \in ActiveSets, n \in (-1)..MaxRetain :
            gen[p].state = "none" /\ PurgeCreate(p, s, n)
    \/ \E p \in AllProcs : PurgeStart(p)
    \/ \E p \in AllProcs : PurgeLoop(p)
    \/ \E p \in AllProcs : PurgeResume(p)
SpecPurgePair == Init /\ [][NextPurgePair]_vars

\* a purge by one process while another adds backups
NextPurgeAdd ==
    \/ Tick
    \/ \E p \in Procs : Purges(p)
    \/ \E p \in AllProcs \ Procs, s \in ActiveSets : BackupsetAddBackup(p, s)
SpecPurgeAdd == Init /\ [][NextPurgeAdd]_vars

\* creation of backupsets and backups
NextCreate ==
    \/ Tick
    \/ \E p \in Procs : Creates(p)
    \/ \E p \in Procs, s \in ActiveSets : FindBackupset(p, s)
SpecCreate == Init /\ [][NextCreate]_vars

----------------------------------------------------------------------------
(* Properties *)

Max(a, b) == IF a > b THEN a ELSE b

\* the paths of a sequence of backups
PathsOf(backups) == { backups[i].path : i \in 1..Len(backups) }

\* the timestamp name of the backup at a path
TsName(path) == Chars(path[Len(path)])

\* string a comes before string b in lexicographic order
RECURSIVE LexBefore(_, _)
LexBefore(a, b) ==
    IF b = << >> THEN FALSE
    ELSE IF a = << >> THEN TRUE
    ELSE IF Head(a) = Head(b) THEN LexBefore(Tail(a), Tail(b))
    ELSE Ord(Head(a)) < Ord(Head(b))

\* the backup at path x is older, by its name, than the one at path y
Older(x, y) == LexBefore(TsName(x), TsName(y))

\* the real directories of backupset s that carry a timestamp name
BackupDirs(s) ==
    { x \in fs.dirs : Len(x) = 2 /\ x[1] = s /\ Strptime(TsName(x)) }

\* what list_backups() of backupset s returns now
Listing(s) == Backupset_list_backups(Backupset(s, PathJoin(SpoolPath, s)), << >>, FALSE)

\* C1: a fully consumed purge(n) over a backupset that held k backups, with
\* no other call changing the backupset meanwhile, has removed exactly the
\* max(0, k-n) oldest backups and left exactly the min(n, k) newest on disk,
\* and list_backups() now returns exactly those.
C1_PurgeKeepsNewest ==
    \A p \in Procs :
        LET g == gen[p]
            k == Len(g.listing)
            removed == PathsOf(g.yielded)
            kept == PathsOf(g.listing) \ removed
        IN  (g.state = "done" /\ g.alone) =>
                /\ Len(g.yielded) = Max(0, k - g.n)
                /\ Cardinality(removed) = Len(g.yielded)
                /\ removed \subseteq PathsOf(g.listing)
                /\ \A r \in removed, q \in kept : Older(r, q)
                /\ Cardinality(kept) = Min(g.n, k)
                /\ BackupDirs(g.self) = kept
                /\ Listing(g.self).tag = "list"
                /\ PathsOf(Listing(g.self).items) = kept
                /\ Len(Listing(g.self).items) = Min(g.n, k)

\* C1 witness: a purge(n) with n >= 1 has run to its end over a backupset of
\* at least n + 2 backups.
C1_Witness ==
    \E p \in Procs :
        /\ gen[p].state = "done" /\ gen[p].alone
        /\ gen[p].n >= 1
        /\ Len(gen[p].yielded) >= 2

\* C2: purge is lazy.  While its sequence is being consumed undisturbed, the
\* backups of its listing that are gone from disk are exactly those yielded so
\* far; creating the sequence and listing for it remove nothing; and the step
\* that yields a backup removes that backup's tree and nothing else.
C2_Lazy ==
    /\ [](\A p \in Procs :
            (gen[p].state \in { "running", "suspended" } /\ gen[p].alone) =>
                \A b \in PathsOf(gen[p].listing) :
                    (b \in fs.dirs) <=> (b \notin PathsOf(gen[p].yielded)))
    /\ [][\A p \in Procs :
            /\ (gen'[p].state \in { "created", "running" } /\ gen'[p] # gen[p]) => fs' = fs
            /\ (gen[p].state \in { "running", "suspended" }
                /\ Len(gen'[p].yielded) = Len(gen[p].yielded) + 1) =>
                    LET b == gen'[p].yielded[Len(gen'[p].yielded)].path
                    IN  /\ b = Head(gen[p].todo).path
                        /\ fs'.dirs = { x \in fs.dirs : ~IsPrefix(b, x) }
                        /\ fs'.files = { x \in fs.files : ~IsPrefix(b, x) }
                        /\ fs'.links = fs.links
         ]_vars

\* C2 witness: a consumer holds j >= 1 yielded backups of a sequence that
\* still has backups to purge, and those are still on disk.
C2_Witness ==
    \E p \in Procs :
        /\ gen[p].state = "suspended" /\ gen[p].alone
        /\ gen[p].yielded # << >>
        /\ gen[p].todo # << >>
        /\ PathsOf(gen[p].todo) \subseteq fs.dirs

\* C3 as claimed: purge yields the removed backups oldest first.
C3_YieldsOldestFirst ==
    \A p \in Procs : \A i, j \in 1..Len(gen[p].yielded) :
        i < j => Older(gen[p].yielded[i].path, gen[p].yielded[j].path)

\* C3 as amended: purge yields the removed backups newest first, in
\* descending order of timestamp name.
C3_YieldsNewestFirst ==
    \A p \in Procs : \A i, j \in 1..Len(gen[p].yielded) :
        i < j => Older(gen[p].yielded[j].path, gen[p].yielded[i].path)

\* C3 witness: purge(1) over three backups has yielded two of them.
C3_Witness ==
    \E p \in Procs :
        /\ gen[p].n = 1
        /\ Len(gen[p].listing) = 3
        /\ Len(gen[p].yielded) = 2

\* update_symlinks(enable=True) on backupset s is the call process p last
\* completed, and p has started nothing since
LinksUpdated(p, s) ==
    /\ pc[p] = "idle"
    /\ ret[p].op = "update_symlinks"
    /\ ret[p].args = << s >>
    /\ ret[p].val = None

\* C4: when update_symlinks() has completed on a backupset that holds
\* backups, oldest is a link to the backup directory of the smallest
\* timestamp name on disk and newest a link to the one of the largest.
C4_LinksPointAtExtremes ==
    \A p \in Procs, s \in ActiveSets :
        (LinksUpdated(p, s) /\ BackupDirs(s) # {}) =>
            /\ LKind(LinkPath(s, "oldest")) = "link"
            /\ LKind(LinkPath(s, "newest")) = "link"
            /\ TargetOf(LinkPath(s, "oldest")) \in BackupDirs(s)
            /\ TargetOf(LinkPath(s, "newest")) \in BackupDirs(s)
            /\ \A b \in BackupDirs(s) :
                /\ b = TargetOf(LinkPath(s, "oldest"))
                   \/ Older(TargetOf(LinkPath(s, "oldest")), b)
                /\ b = TargetOf(LinkPath(s, "newest"))
                   \/ Older(b, TargetOf(LinkPath(s, "newest")))

\* C4 witness: update_symlinks() has completed on a backupset of three
\* backups, the links pointing at two different ones.
C4_Witness ==
    \E p \in Procs, s \in ActiveSets :
        /\ LinksUpdated(p, s)
        /\ Cardinality(BackupDirs(s)) = 3
        /\ LKind(LinkPath(s, "oldest")) = "link"
        /\ TargetOf(LinkPath(s, "oldest")) # TargetOf(LinkPath(s, "newest"))

\* C5: after an undisturbed, fully consumed purge(0) the backupset holds no
\* backup, and an update_symlinks() that completes then leaves neither an
\* oldest nor a newest entry; update_symlinks(enable=False) leaves the tree
\* as it is.
C5_PurgeAllThenNoLinks ==
    /\ [](\A p \in Procs :
            (gen[p].state = "done" /\ gen[p].n = 0 /\ gen[p].alone) =>
                /\ BackupDirs(gen[p].self) = {}
                /\ Listing(gen[p].self) = ListOf(<< >>)
                /\ LinksUpdated(p, gen[p].self) =>
                      /\ LKind(LinkPath(gen[p].self, "oldest")) = "none"
                      /\ LKind(LinkPath(gen[p].self, "newest")) = "none")
    /\ [][\A p \in Procs :
            (/\ pc[p] = "idle" /\ pc'[p] = "idle"
             /\ ret'[p].op = "update_symlinks"
             /\ Len(ret'[p].args) = 2) => fs' = fs
         ]_vars

\* C5 witness: purge(0) has removed two backups, update_symlinks() has run
\* after it, and no link is left.
C5_Witness ==
    \E p \in Procs :
        /\ gen[p].state = "done" /\ gen[p].n = 0 /\ gen[p].alone
        /\ Len(gen[p].yielded) >= 2
        /\ LinksUpdated(p, gen[p].self)
        /\ LKind(LinkPath(gen[p].self, "oldest")) = "none"
        /\ LKind(LinkPath(gen[p].self, "newest")) = "none"

\* the list a completed list_backups() call of process p returned for s
Listed(p, s, op) ==
    /\ pc[p] = "idle"
    /\ ret[p].op = op
    /\ ret[p].args = << s >>
    /\ ret[p].val.tag = "list"

\* C6: list_backups() returns each timestamp-named directory of the
\* backupset exactly once, in strictly ascending lexicographic order of the
\* timestamp names, and list_backups(reverse=True) returns that sequence
\* reversed.
C6_ListingSorted ==
    \A p \in Procs, s \in SetIds :
        /\ Listed(p, s, "list_backups") =>
            LET l == ret[p].val.items
            IN  /\ PathsOf(l) = BackupDirs(s)
                /\ Len(l) = Cardinality(BackupDirs(s))
                /\ \A i \in 1..(Len(l) - 1) : Older(l[i].path, l[i + 1].path)
        /\ Listed(p, s, "list_backups_reverse") =>
            LET l == ret[p].val.items
                f == Listing(s).items
            IN  /\ Len(l) = Len(f)
                /\ \A i \in 1..Len(l) : l[i] = f[Len(f) + 1 - i]
                /\ \A i \in 1..(Len(l) - 1) : Older(l[i + 1].path, l[i].path)

\* C6 witness: a reversed listing of four backups, the backup of second 10
\* listed ahead of the one of second 9.
C6_Witness ==
    \E p \in Procs, s \in SetIds :
        /\ Listed(p, s, "list_backups_reverse")
        /\ Len(ret[p].val.items) >= 4
        /\ \E i \in 1..(Len(ret[p].val.items) - 1) :
            /\ ret[p].val.items[i].name = TsId(10)
            /\ ret[p].val.items[i + 1].name = TsId(9)

\* C7: list_backups() returns exactly the real directories of the backupset
\* whose names parse as timestamps: never a foreign directory, a plain file,
\* a symlink to a directory, or the oldest and newest links.  While
\* update_symlinks() runs the listing stays the one it took at its start, and
\* no step of it changes the set of directories that are listed.
C7_ListsRealTimestampDirs ==
    /\ [](\A p \in Procs, s \in ActiveSets :
            LET listing == Listing(s)
            IN  /\ listing.tag = "list" =>
                    /\ PathsOf(listing.items) = BackupDirs(s)
                    /\ \A b \in PathsOf(listing.items) :
                        b \notin { << s, "lost+found" >>, << s, "oldest" >>, << s, "newest" >>,
                                   << s, TsId(4) >>, << s, TsId(5) >> }
                /\ Listed(p, s, "list_backups") => ret[p].val = listing
                /\ (pc[p] \in { "rm_oldest", "rm_newest", "ln_oldest", "ln_newest" }
                    /\ frame[p].self = s) => listing = frame[p].backups)
    /\ [][\A p \in Procs, s \in ActiveSets :
            (pc[p] \in { "rm_oldest", "rm_newest", "ln_oldest", "ln_newest" }
             /\ frame[p].self = s) =>
                /\ BackupDirs(s)' = BackupDirs(s)
                /\ (<< s >> \in fs.dirs)' = (<< s >> \in fs.dirs)
         ]_vars

\* C7 witness: a listing returned for a backupset that holds backups, the
\* foreign directory, the timestamp-named file and symlink, and both links.
C7_Witness ==
    \E p \in Procs, s \in ActiveSets :
        /\ Listed(p, s, "list_backups")
        /\ ret[p].val.items # << >>
        /\ LKind(<< s, "lost+found" >>) = "dir"
        /\ LKind(<< s, TsId(5) >>) = "file"
        /\ LKind(<< s, TsId(4) >>) = "link"
        /\ LKind(LinkPath(s, "oldest")) = "link"
        /\ LKind(LinkPath(s, "newest")) = "link"
        /\ RealPath(LinkPath(s, "newest")) \in BackupDirs(s)

\* the call of process p that returned last, with its argument
Called(p, op, s) ==
    /\ pc[p] = "idle"
    /\ ret[p].op = op
    /\ ret[p].args = << s >>

\* a compound name of exactly two non-empty parts
WellFormed(parts) == Len(parts) = 2 /\ parts[1] # "" /\ parts[2] # ""

\* C8: Spool.find_backup(compound_name) returns absent, without raising,
\* whenever compound_name does not split on "/" into exactly two non-empty
\* parts; it returns a Backup only for a well-formed name whose backupset and
\* backup both exist, and absent for a well-formed name that does not exist.
C8_FindBackupRejectsMalformed ==
    \A p \in Procs :
        (pc[p] = "idle" /\ ret[p].op = "find_backup") =>
            LET parts == ret[p].args
                val == ret[p].val
            IN  /\ val.tag \in { "None", "object" }
                /\ ~WellFormed(parts) => val = None
                /\ val.tag = "object" =>
                    /\ WellFormed(parts)
                    /\ Exists(<< parts[1] >>)
                    /\ Exists(<< parts[1], parts[2] >>)
                /\ (WellFormed(parts) /\ ~Exists(<< parts[1], parts[2] >>)) => val = None

C10_AddBackupsetInMemory ==
    /\ [](\A p \in Procs, s \in ActiveSets :
            /\ Called(p, "add_backupset", s) =>
                /\ ret[p].val.tag \in { "IOError", "object" }
                /\ ret[p].val.tag = "IOError" <=> Exists(<< s >>)
                /\ ret[p].val.tag = "object" => ret[p].val.items[1] = [name |-> s, path |-> << s >>]
            /\ Called(p, "find_backupset", s) =>
                /\ ret[p].val.tag \in { "None", "object" }
                /\ ret[p].val = None <=> ~Exists(<< s >>))
    /\ [][\A p \in Procs, s \in ActiveSets :
            /\ (pc[p] = "idle" /\ pc'[p] = "idle" /\ ret'[p].op \in { "add_backupset", "find_backupset" })
                => fs' = fs
            /\ (~Exists(<< s >>) /\ Exists(<< s >>)') =>
                /\ ret'[p].op \in { "add_backup", "Backupset.add_backup" }
                /\ ret'[p].args = << s >>
                /\ ret'[p].val.tag = "object"
         ]_vars

\* C10 witness: add_backupset has returned a handle for a backupset of an
\* existing spool, and neither the backupset directory nor anything else has
\* been created.
C10_Witness ==
    \E p \in Procs, s \in ActiveSets :
        /\ Called(p, "add_backupset", s)
        /\ ret[p].val.tag = "object"
        /\ fs = BareRoot

\* C11: Backupset.purge(n) with n < 0 fails with ValueError and purges
\* nothing: the sequence raises on its first advance, yields no backup, and
\* neither its creation nor its advance changes a directory, file or symlink.
C11_NegativePurgeRaises ==
    /\ [](\A p \in Procs :
            gen[p].n < 0 =>
                /\ gen[p].state \in { "created", "error" }
                /\ gen[p].yielded = << >>
                /\ gen[p].todo = << >>)
    /\ [][\A p \in Procs :
            /\ (gen'[p] # gen[p] /\ gen'[p].n < 0) => fs' = fs
            /\ (gen[p].n < 0 /\ gen[p].state = "created" /\ gen'[p] # gen[p] /\ gen'[p].n < 0) =>
                /\ gen'[p].state = "error"
                /\ ret'[p].op = "next"
                /\ ret'[p].val = [tag |-> "ValueError", items |-> << >>]
         ]_vars

\* C11 witness: the advance of a purge(-1) sequence has raised ValueError
\* over a backupset that holds backups and both links.
C11_Witness ==
    \E p \in Procs :
        /\ gen[p].n < 0
        /\ gen[p].state = "error"
        /\ ret[p].val.tag = "ValueError"
        /\ Cardinality(BackupDirs(gen[p].self)) >= 2
        /\ LKind(LinkPath(gen[p].self, "oldest")) = "link"

\* the step on which process p returns from add_backup on backupset s, called
\* on the Spool (op "add_backup") or on a Backupset handle
AddBackupReturns(p, s) ==
    /\ clock' = clock
    /\ pc'[p] = "idle"
    /\ ret'[p].args = << s >>
    /\ \/ pc[p] = "idle" /\ ret'[p].op = "Backupset.add_backup"
       \/ pc[p] = "add_backup" /\ ret'[p].op = "add_backup"

\* C12: add_backup() on a backupset that already holds a directory named
\* after the current second fails with OSError: no handle is returned, no
\* directory of another name is created, and the disk, the first backup's
\* directory and backup.conf with it, is left unchanged.  A call that does
\* return a backup has created the directory of the current second only.
C12_SameSecondFails ==
    [][\A p \in Procs, s \in ActiveSets :
        AddBackupReturns(p, s) =>
            IF << s, TsId(clock) >> \in fs.dirs
            THEN /\ ret'[p].val = [tag |-> "OSError", items |-> << >>]
                 /\ fs' = fs
                 /\ handle' = handle
            ELSE /\ ret'[p].val.tag = "object"
                 /\ ret'[p].val.items[1].path = << s, TsId(clock) >>
                 /\ fs'.dirs = fs.dirs \cup { << >>, << s >>, << s, TsId(clock) >> }
      ]_vars

\* C12 witness: add_backup has failed with OSError in the second whose
\* backup exists, flushed, from the first call.
C12_Witness ==
    \E p \in Procs, s \in ActiveSets :
        /\ pc[p] = "idle"
        /\ ret[p].op \in { "add_backup", "Backupset.add_backup" }
        /\ ret[p].args = << s >>
        /\ ret[p].val.tag = "OSError"
        /\ handle[p] = << s, TsId(clock) >>
        /\ << s, TsId(clock), "backup.conf" >> \in fs.files

\* the lookup and listing calls, by the name their return is recorded under
LookupOps ==
    { "find_backupset", "find_backup", "Backupset.find_backup", "list_backups",
      "list_backups_reverse", "list_backupsets", "list_backupsets_reverse",
      "Spool.list_backups" }

\* C13: the lookups and listings of Spool and Backupset never change the
\* disk: the step on which one of them returns leaves every directory, file
\* and symlink as it was, a missing backupset directory or spool root with
\* them; on a missing root Spool.list_backupsets and Spool.list_backups
\* return the empty list and raise nothing.
C13_LookupsLeaveDisk ==
    /\ [](\A p \in Procs :
            (/\ pc[p] = "idle"
             /\ << >> \notin fs.dirs
             /\ ret[p].op \in { "list_backupsets", "list_backupsets_reverse", "Spool.list_backups" })
            => ret[p].val = [tag |-> "list", items |-> << >>])
    /\ [][\A p \in Procs :
            (pc[p] = "idle" /\ pc'[p] = "idle" /\ ret'[p].op \in LookupOps) => fs' = fs
         ]_vars

\* C13 witness: Spool.list_backups has returned the empty list on a spool
\* whose root directory does not exist, and the root is still missing.
C13_Witness ==
    \E p \in Procs :
        /\ pc[p] = "idle"
        /\ ret[p].op = "Spool.list_backups"
        /\ ret[p].val = [tag |-> "list", items |-> << >>]
        /\ fs = EmptyTree

\* the n newest, by name, of a set of backup paths
NewestN(S, n) == { x \in S : Cardinality({ y \in S : Older(x, y) }) < n }

\* C14: a purge(n) sequence abandoned after it removed j backups leaves those
\* removed and, as long as nothing else touched the backupset, every other
\* backup of its listing on disk; once a fresh purge(n), one that listed
\* exactly what the abandoned sequence left, has been consumed, the backupset
\* holds exactly the min(n, k) newest of the k backups the abandoned sequence
\* had listed, as one uninterrupted purge(n) leaves it; and a purge(n)
\* started after a consumed purge(n) finds nothing to remove.
C14_RerunRecovers ==
    /\ [](\A p \in AllProcs :
            (gen[p].state = "suspended" /\ gen[p].alone) =>
                BackupDirs(gen[p].self) = PathsOf(gen[p].listing) \ PathsOf(gen[p].yielded))
    /\ [](\A p, q \in AllProcs :
            (/\ p # q
             /\ gen[p].state = "suspended"
             /\ gen[q].state = "done"
             /\ gen[q].self = gen[p].self
             /\ gen[q].n = gen[p].n
             /\ PathsOf(gen[q].listing) = PathsOf(gen[p].listing) \ PathsOf(gen[p].yielded)) =>
                /\ BackupDirs(gen[p].self) = NewestN(PathsOf(gen[p].listing), gen[p].n)
                /\ Cardinality(BackupDirs(gen[p].self)) = Min(gen[p].n, Len(gen[p].listing))
                /\ PathsOf(gen[p].yielded) \cap fs.dirs = {})
    /\ [][\A p, q \in AllProcs :
            (/\ p # q
             /\ gen[p].state = "done"
             /\ gen[q].state = "created"
             /\ gen'[q].state = "running"
             /\ gen[q].self = gen[p].self
             /\ gen[q].n = gen[p].n) =>
                /\ gen'[q].todo = << >>
                /\ fs' = fs
         ]_vars

\* C14 witness: a purge(1) over three backups was abandoned after its first
\* removal, and a fresh purge(1), which listed the two backups left, has run
\* to its end and removed one more.
C14_Witness ==
    \E p, q \in AllProcs :
        /\ p # q
        /\ gen[p].state = "suspended" /\ gen[p].n = 1
        /\ Len(gen[p].listing) = 3 /\ Len(gen[p].yielded) = 1
        /\ gen[q].state = "done" /\ gen[q].n = 1
        /\ gen[q].self = gen[p].self
        /\ Len(gen[q].listing) = 2 /\ Len(gen[q].yielded) = 1

\* C15: of two processes that each set out to create the same missing
\* backupset, the loser gets a creation error: a Spool.add_backup call whose
\* find_backupset found nothing, and which comes to prepare its backup after
\* another process has created the backupset directory, raises and leaves the
\* disk unchanged.
C15_CreateRaceLoserFails ==
    [][\A q \in AllProcs, s \in ActiveSets :
        (/\ pc[q] = "add_backup"
         /\ pc'[q] = "idle"
         /\ frame[q].self = s
         /\ frame[q].backups.tag = "None"
         /\ << s >> \in fs.dirs) =>
            /\ ret'[q].val.tag \in { "IOError", "OSError" }
            /\ fs' = fs
      ]_vars

\* C16: update_symlinks() is not atomic.  Every run of it that listed
\* backups comes, after its two removals, to a state in which neither oldest
\* nor newest exists, and then points oldest at the first backup of the
\* listing it took at its start and newest at the last, whether or not a
\* purge running beside it has deleted them since.
C16_LinksNotAtomic ==
    /\ [](\A p \in Procs :
            pc[p] \in { "ln_oldest", "ln_newest" } =>
                /\ frame[p].backups.tag = "list"
                /\ frame[p].backups.items # << >>
                /\ LKind(LinkPath(frame[p].self, "newest")) = "none"
                /\ pc[p] = "ln_oldest" => LKind(LinkPath(frame[p].self, "oldest")) = "none")
    /\ [][\A p \in Procs :
            /\ (pc[p] = "rm_newest" /\ pc'[p] # "rm_newest" /\ Truthy(frame[p].backups))
                => pc'[p] = "ln_oldest"
            /\ (pc[p] = "ln_oldest" /\ pc'[p] # "ln_oldest") =>
                /\ pc'[p] = "ln_newest"
                /\ fs'.links = fs.links \cup
                      { << LinkPath(frame[p].self, "oldest"), frame[p].backups.items[1].path >> }
            /\ (pc[p] = "ln_newest" /\ pc'[p] # "ln_newest") =>
                /\ ret'[p].val = None
                /\ fs'.links = fs.links \cup
                      { << LinkPath(frame[p].self, "newest"),
                           frame[p].backups.items[Len(frame[p].backups.items)].path >> }
         ]_vars

\* C16 witness: update_symlinks() listed the backup of second 7 as the
\* oldest and has pointed oldest at it, a purge running beside it has deleted
\* that backup, and the one step update_symlinks has left only adds newest.
C16_Witness ==
    \E p \in Procs, q \in AllProcs \ Procs, s \in ActiveSets :
        /\ pc[p] = "ln_newest"
        /\ frame[p].self = s
        /\ frame[p].backups.items[1].path = << s, TsId(7) >>
        /\ gen[q].self = s
        /\ LKind(LinkPath(s, "oldest")) = "link"
        /\ TargetOf(LinkPath(s, "oldest")) = << s, TsId(7) >>
        /\ << s, TsId(7) >> \notin fs.dirs
        /\ << s, TsId(7) >> \in PathsOf(gen[q].yielded)
        /\ BackupDirs(s) # {}

\* C17: a purge(n) with n >= the number of backups its backupset holds
\* completes without error, yields nothing and leaves the disk unchanged, on
\* a handle whose directory does not exist as on an empty directory: once
\* advanced, such a sequence is never in error, has nothing to remove and has
\* yielded nothing.
C17_PurgeNothingToDo ==
    \A p \in Procs :
        (/\ gen[p].state \notin { "none", "created" }
         /\ gen[p].n >= 0
         /\ gen[p].n >= Len(gen[p].listing)) =>
            /\ gen[p].state \in { "running", "done" }
            /\ gen[p].todo = << >>
            /\ gen[p].yielded = << >>

\* C18: removing a backup that is already gone is no error.  A purge step
\* that comes to a backup another sequence has removed yields it and leaves
\* the disk unchanged; no purge step raises OSError; and when two purge(n)
\* sequences over one backupset have both run to their end, however their
\* steps interleaved, the backupset holds exactly the min(n, k) newest of the
\* k backups it held, as after a single purge(n).
C18_AbsentBackupTolerated ==
    /\ [](\A p \in AllProcs :
            /\ ret[p].val.tag # "OSError"
            /\ gen[p].state = "error" => (gen[p].n < 0 \/ ~Exists(<< gen[p].self >>)))
    /\ [](\A p, q \in AllProcs :
            (/\ p # q
             /\ gen[p].state = "done" /\ gen[q].state = "done"
             /\ gen[p].self = gen[q].self
             /\ gen[p].n = gen[q].n) =>
                LET all == PathsOf(gen[p].listing) \cup PathsOf(gen[q].listing)
                IN  /\ BackupDirs(gen[p].self) = NewestN(all, gen[p].n)
                    /\ Cardinality(BackupDirs(gen[p].self)) = Min(gen[p].n, Cardinality(all)))
    /\ [][\A p \in AllProcs :
            (/\ gen[p].state \in { "running", "suspended" }
             /\ gen[p].todo # << >>
             /\ gen'[p].state # gen[p].state \/ gen'[p].todo # gen[p].todo) =>
                /\ gen'[p].state = "suspended"
                /\ gen'[p].yielded = Append(gen[p].yielded, Head(gen[p].todo))
                /\ ret'[p].val = [tag |-> "object", items |-> << Head(gen[p].todo) >>]
                /\ Head(gen[p].todo).path \notin fs'.dirs
                /\ Head(gen[p].todo).path \notin fs.dirs => fs' = fs
         ]_vars

\* C18 witness: two purge(0) sequences over a backupset of three backups
\* have both run to their end, and a backup one of them removed was yielded
\* by the other as well.
C18_Witness ==
    \E p, q \in AllProcs :
        /\ p # q
        /\ gen[p].state = "done" /\ gen[q].state = "done"
        /\ gen[p].self = gen[q].self
        /\ gen[p].n = 0 /\ gen[q].n = 0
        /\ Len(gen[p].listing) = 3
        /\ Len(gen[p].yielded) = 3
        /\ PathsOf(gen[p].yielded) \cap PathsOf(gen[q].yielded) # {}

\* C19: every Backup that Backupset.find_backup(name) or
\* Spool.find_backup("<set>/<name>") returns for non-empty set and name
\* has a name that parses as a timestamp and is one of the backups
\* list_backups() of its backupset returns; a foreign directory or the oldest
\* or newest link is never returned as a Backup.
C19_FoundIsListed ==
    \A p \in Procs :
        (/\ pc[p] = "idle"
         /\ ret[p].op \in { "Backupset.find_backup", "find_backup" }
         /\ WellFormed(ret[p].args)
         /\ ret[p].val.tag = "object") =>
            LET b == ret[p].val.items[1]
            IN  /\ Strptime(Chars(b.name))
                /\ b.name \notin { "lost+found", "oldest", "newest" }
                /\ b.path \in BackupDirs(b.backupset)

\* C20: a purge(n) sequence works from the one listing it took at its first
\* advance.  That listing never changes while the sequence lives; whatever
\* the sequence yields or still means to remove is a backup of that listing
\* outside its n newest, each at most once; and every backup directory that
\* disappears is such a backup, so neither a backup added since nor one of
\* the n newest listed is removed, however add_backup calls interleave with
\* the steps.
C20_PurgeUsesOneListing ==
    /\ [](\A p \in Procs :
            gen[p].state \in { "running", "suspended", "done" } =>
                LET listed == PathsOf(gen[p].listing)
                    doomed == listed \ NewestN(listed, gen[p].n)
                IN  /\ PathsOf(gen[p].yielded) \subseteq doomed
                    /\ PathsOf(gen[p].todo) \subseteq doomed
                    /\ PathsOf(gen[p].yielded) \cap PathsOf(gen[p].todo) = {}
                    /\ NewestN(listed, gen[p].n) \subseteq fs.dirs)
    /\ [][\A p \in Procs :
            /\ (gen[p].state \in { "running", "suspended" } /\ gen'[p].state # "created")
                => gen'[p].listing = gen[p].listing
            /\ fs.dirs \ fs'.dirs # {} =>
                /\ gen'[p].yielded = Append(gen[p].yielded, Head(gen[p].todo))
                /\ fs.dirs \ fs'.dirs = { Head(gen[p].todo).path }
                /\ Head(gen[p].todo).path \in
                      PathsOf(gen[p].listing) \ NewestN(PathsOf(gen[p].listing), gen[p].n)
         ]_vars

\* C20 witness: a purge(1) that listed three backups is under way, with one
\* removed and one to go, and the backupset holds a backup added after the
\* listing was taken.
C20_Witness ==
    \E p \in Procs :
        /\ gen[p].state = "suspended"
        /\ gen[p].n = 1
        /\ Len(gen[p].listing) = 3
        /\ Len(gen[p].yielded) = 1
        /\ gen[p].todo # << >>
        /\ BackupDirs(gen[p].self) \ PathsOf(gen[p].listing) # {}

====
